---- MODULE Spec2Model ----
(***************************************************************************)
(* A model of the custom-table timetable pipeline:                         *)
(*   parser.py        parse_html_to_json: course cards -> course records   *)
(*   gen_schedule.py  generate_row: one day's records -> one table row     *)
(*   main.py          run_pipeline: parser.py, then gen_schedule.py        *)
(* Text values that the code parses or formats (the time-range field, the  *)
(* "start" and "duration" fields) are sequences of one-character strings,  *)
(* so that splitting, stripping, int() and strptime are computed.  Text    *)
(* that is only copied (the day label) is a TLA+ string.                   *)
(***************************************************************************)
EXTENDS Integers, Sequences, FiniteSets, TLC

VARIABLES
    \* gen_schedule.py, generate_row
    day,             \* the day whose row is generated
    classes,         \* the records loaded from the intermediate file
    sorted_classes,  \* the day's records still to place, in sorted order
    hour_ptr,        \* the row cursor
    row,             \* the cells emitted so far, after the day-label cell
    row_pc,          \* "sort" | "loop" | "done" | "raised"
    \* parser.py, parse_html_to_json
    cards,           \* the card elements of the document, in document order
    card_i,          \* index of the next card to extract
    courses_data,    \* the records appended so far
    parse_pc,        \* "cards" | "done" | "raised"
    \* main.py, run_pipeline, and the files it works on
    run_pc,          \* "idle" | "parser" | "check" | "gen" | "save"
    runs,            \* number of run_pipeline invocations started
    input,           \* what the input path of the current run holds
    temp_file,       \* temp_data.json: absent, empty, or the records in it
    generated_html,  \* stdout of gen_schedule.py in this run: "none" | "page"
    parser_wrote,    \* parser.py wrote temp_data.json in this run
    gen_started,     \* gen_schedule.py was started in this run
    out_written      \* the output page was written in this run

rowVars   == <<day, classes, sorted_classes, hour_ptr, row, row_pc>>
parseVars == <<cards, card_i, courses_data, parse_pc>>
pipeVars  == <<run_pc, runs, input, temp_file, generated_html, parser_wrote,
               gen_started, out_written>>
vars      == <<rowVars, parseVars, pipeVars>>

----------------------------------------------------------------------------
(* Bounds of the model *)

MaxClasses == 2     \* records in the intermediate file
MaxCards   == 2     \* cards in the document
MaxRuns    == 3     \* run_pipeline invocations

----------------------------------------------------------------------------
(* Text *)

Digits == <<"0", "1", "2", "3", "4", "5", "6", "7", "8", "9">>

IsDigit(c) == \E d \in 1..10 : Digits[d] = c

DigitVal(c) == (CHOOSE d \in 1..10 : Digits[d] = c) - 1

NA == <<"N", "/", "A">>

SEP == <<" ", "-", " ">>

\* s[i..] starts with sub
StartsWithAt(s, i, sub) ==
    /\ i + Len(sub) - 1 <= Len(s)
    /\ \A k \in 1..Len(sub) : s[i + k - 1] = sub[k]

\* sub in s
Contains(s, sub) == \E i \in 1..Len(s) : StartsWithAt(s, i, sub)

\* s.split(sub): left to right, non-overlapping
RECURSIVE SplitFrom(_, _, _, _)
SplitFrom(s, sub, i, cur) ==
    IF i > Len(s) THEN <<cur>>
    ELSE IF StartsWithAt(s, i, sub)
         THEN <<cur>> \o SplitFrom(s, sub, i + Len(sub), <<>>)
         ELSE SplitFrom(s, sub, i + 1, Append(cur, s[i]))

Split(s, sub) == SplitFrom(s, sub, 1, <<>>)

\* s.strip()
RECURSIVE Strip(_)
Strip(s) ==
    IF s = <<>> THEN s
    ELSE IF Head(s) = " " THEN Strip(Tail(s))
    ELSE IF s[Len(s)] = " " THEN Strip(SubSeq(s, 1, Len(s) - 1))
    ELSE s

\* int(s) succeeds (the texts of the model hold no sign and no inner blank)
IsIntText(s) == Len(s) > 0 /\ \A k \in 1..Len(s) : IsDigit(s[k])

\* int(s)
RECURSIVE IntOf(_)
IntOf(s) ==
    IF s = <<>> THEN 0
    ELSE 10 * IntOf(SubSeq(s, 1, Len(s) - 1)) + DigitVal(s[Len(s)])

\* str(n), n >= 0
RECURSIVE DecText(_)
DecText(n) ==
    IF n < 10 THEN <<Digits[n + 1]>>
    ELSE Append(DecText(n \div 10), Digits[(n % 10) + 1])

\* f"{n:02d}"
Fmt02d(n) ==
    IF n < 0 THEN <<"-">> \o DecText(-n)
    ELSE IF n < 10 THEN <<"0">> \o DecText(n)
    ELSE DecText(n)

\* f"{hours:02d}:{minutes:02d}"
FormatHHMM(hours, minutes) == Fmt02d(hours) \o <<":">> \o Fmt02d(minutes)

\* datetime.strptime(s, "%H:%M") succeeds: one or two digits, a colon, one or
\* two digits, hour at most 23 and minute at most 59
CanStrptime(s) ==
    LET p == Split(s, <<":">>)
    IN  /\ Len(p) = 2
        /\ IsIntText(p[1]) /\ Len(p[1]) <= 2 /\ IntOf(p[1]) <= 23
        /\ IsIntText(p[2]) /\ Len(p[2]) <= 2 /\ IntOf(p[2]) <= 59

\* datetime.strptime(s, "%H:%M"), as minutes since midnight of 1900-01-01
Strptime(s) ==
    LET p == Split(s, <<":">>) IN 60 * IntOf(p[1]) + IntOf(p[2])

----------------------------------------------------------------------------
(* parser.py: parse_html_to_json *)

\* timedelta(days=1), in minutes
MinutesPerDay == 1440

\* EndOnClock without the next-day case: the end is left on the start's day
EndOnClock_NoWrap(start_dt, end_dt) == end_dt

\* if end_dt < start_dt: end_dt += timedelta(days=1)

EndOnClock(start_dt, end_dt) ==
    IF end_dt < start_dt THEN end_dt + MinutesPerDay ELSE end_dt

\* duration_td = end_dt - start_dt, formatted from its total_seconds()
DurationText(start_dt, end_dt) ==
    LET total_seconds == 60 * (EndOnClock(start_dt, end_dt) - start_dt)
        hours         == total_seconds \div 3600
        minutes       == (total_seconds % 3600) \div 60
    IN  FormatHHMM(hours, minutes)

\* The time-range block.  start_str, end_str = time_range.split(' - ') is
\* outside the try: with any number of parts but two it raises ValueError,
\* which nothing catches.
TimeRangeRaises(time_range) ==
    Contains(time_range, SEP) /\ Len(Split(time_range, SEP)) # 2

ParseTimeRange(time_range) ==
    IF ~Contains(time_range, SEP)
    THEN [start |-> NA, duration |-> NA]
    ELSE LET parts     == Split(time_range, SEP)
             start_str == Strip(parts[1])
             end_str   == Strip(parts[2])
         IN  [start    |-> start_str,
              duration |->
                  IF CanStrptime(start_str) /\ CanStrptime(end_str)
                  THEN DurationText(Strptime(start_str), Strptime(end_str))
                  ELSE NA]

\* A card: its day element and its time element, each present or not.  The
\* other five fields are display text that no later stage reads.
Card(has_day, day_text, has_time, time_text) ==
    [has_day |-> has_day, day |-> day_text,
     has_time |-> has_time, time |-> time_text]

\* get_text(strip=True) if the element is there, else "N/A"
TimeRangeOf(card) == IF card.has_time THEN Strip(card.time) ELSE NA

DayOf(card) == IF card.has_day THEN card.day ELSE "N/A"

\* One pass of the loop over course_cards
CardRaises(card) == TimeRangeRaises(TimeRangeOf(card))

ExtractCard(card) ==
    LET t == ParseTimeRange(TimeRangeOf(card))
    IN  [day |-> DayOf(card), start |-> t.start, duration |-> t.duration]

ParseNextCard ==
    /\ parse_pc = "cards"
    /\ card_i <= Len(cards)
    /\ IF CardRaises(cards[card_i])
       THEN /\ parse_pc' = "raised"
            /\ UNCHANGED <<card_i, courses_data>>
       ELSE /\ courses_data' = Append(courses_data, ExtractCard(cards[card_i]))
            /\ card_i' = card_i + 1
            /\ UNCHANGED parse_pc
    /\ UNCHANGED <<cards, rowVars, pipeVars>>

ParseReturn ==
    /\ parse_pc = "cards"
    /\ card_i > Len(cards)
    /\ parse_pc' = "done"
    /\ UNCHANGED <<cards, card_i, courses_data, rowVars, pipeVars>>

\* Inputs of the extractor: ranges of two valid times, and OtherTimes: a text
\* with no separator, a range whose end or start is no time, a text with two
\* separators, and a valid range with blanks around it and its separator
RangeText(a, b) == a \o SEP \o b

ClockChoices == {<<0, 0>>, <<9, 30>>, <<10, 0>>, <<23, 59>>}

ValidClocks == {FormatHHMM(t[1], t[2]) : t \in ClockChoices}

ValidRanges == {RangeText(a, b) : a, b \in ValidClocks}

OtherTimes ==
    { <<"T", "B", "A">>,
      RangeText(FormatHHMM(9, 30), <<"9", "a", "m">>),
      RangeText(FormatHHMM(25, 0), FormatHHMM(10, 0)),
      RangeText(FormatHHMM(9, 30), RangeText(FormatHHMM(10, 0), FormatHHMM(11, 0))),
      FormatHHMM(9, 30) \o <<" ">> \o SEP \o <<" ">> \o FormatHHMM(10, 0) \o <<" ">> }

ParserCards ==
    {Card(d, "MON", TRUE, t) : d \in BOOLEAN, t \in ValidRanges \cup OtherTimes}
    \cup {Card(d, "MON", FALSE, <<>>) : d \in BOOLEAN}

SeqsUpTo(S, n) == UNION {[1..k -> S] : k \in 0..n}

RowIdle ==
    /\ day = "MON" /\ classes = <<>> /\ sorted_classes = <<>>
    /\ hour_ptr = 0 /\ row = <<>> /\ row_pc = "done"

ParseIdle ==
    /\ cards = <<>> /\ card_i = 1 /\ courses_data = <<>> /\ parse_pc = "done"

PipeIdle ==
    /\ run_pc = "idle" /\ runs = 0
    /\ input = [kind |-> "none", doc |-> <<>>]
    /\ temp_file = [state |-> "absent", data |-> <<>>]
    /\ generated_html = "none" /\ parser_wrote = FALSE
    /\ gen_started = FALSE /\ out_written = FALSE

InitParse ==
    /\ cards \in SeqsUpTo(ParserCards, MaxCards)
    /\ card_i = 1
    /\ courses_data = <<>>
    /\ parse_pc = "cards"
    /\ RowIdle /\ PipeIdle

NextParse == ParseNextCard \/ ParseReturn

SpecParse == InitParse /\ [][NextParse]_vars

----------------------------------------------------------------------------
(* gen_schedule.py: generate_row *)

HOURS == <<8, 9, 10, 11, 12, 13, 14, 15, 16, 17, 18, 19, 20>>

DAYS == <<"MON", "TUE", "WED", "THU", "FRI", "SAT", "SUN">>

\* h, m = map(int, duration.split(":")) raises ValueError
DurationRaises(duration) ==
    LET p == Split(duration, <<":">>)
    IN  Len(p) # 2 \/ \E k \in 1..Len(p) : ~IsIntText(p[k])

DurationMinutes(duration) ==
    LET p == Split(duration, <<":">>) IN IntOf(p[1]) * 60 + IntOf(p[2])

\* time_to_colspan and compute_end raise ValueError on the same texts: both
\* strptime the start and split the duration
TimeToColspanRaises(start, duration) ==
    ~CanStrptime(start) \/ DurationRaises(duration)

Max(a, b) == IF a >= b THEN a ELSE b

time_to_colspan(start, duration) ==
    Max(1, DurationMinutes(duration) \div 60)

get_start_hour(start) == IntOf(Split(start, <<":">>)[1])

StartMinute(start) == IntOf(Split(start, <<":">>)[2])

\* sorted(..., key=strptime(start)): stable, ascending
RECURSIVE InsertByStart(_, _)
InsertByStart(sorted, cls) ==
    IF sorted = <<>> THEN <<cls>>
    ELSE IF Strptime(sorted[Len(sorted)].start) <= Strptime(cls.start)
         THEN Append(sorted, cls)
         ELSE Append(InsertByStart(SubSeq(sorted, 1, Len(sorted) - 1), cls),
                     sorted[Len(sorted)])

RECURSIVE SortByStart(_)
SortByStart(s) ==
    IF s = <<>> THEN <<>>
    ELSE InsertByStart(SortByStart(SubSeq(s, 1, Len(s) - 1)), s[Len(s)])

\* [cls for cls in classes if cls['day'] == day]
RECURSIVE ClassesOfDay(_, _)
ClassesOfDay(d, cs) ==
    IF cs = <<>> THEN <<>>
    ELSE IF Head(cs).day = d THEN <<Head(cs)>> \o ClassesOfDay(d, Tail(cs))
         ELSE ClassesOfDay(d, Tail(cs))

SortRaises(d, cs) ==
    \E k \in 1..Len(ClassesOfDay(d, cs)) : ~CanStrptime(ClassesOfDay(d, cs)[k].start)

\* SortedClasses without the sort: the day's records in input order
SortedClasses_InputOrder(d, cs) == ClassesOfDay(d, cs)

\* sorted([cls for cls in classes if cls['day'] == day], key=...)

SortedClasses(d, cs) == SortByStart(ClassesOfDay(d, cs))

\* The cells of a row after the day-label cell: <td></td> has no record,
\* a class cell carries its record and its colspan
EmptyCell == [colspan |-> 1, cls |-> <<>>]

ClassCell(cls, colspan) == [colspan |-> colspan, cls |-> <<cls>>]

EmptyCells(n) == [k \in 1..n |-> EmptyCell]

\* GapFill with a mid-hour start rounded up: the hour of the start is filled
\* with an empty cell too and the cursor set to the next hour
GapFill_RoundUp(cls_start_hour, cls_start_minute, ptr) ==
    LET empty_slots_before == cls_start_hour - ptr
    IN  IF cls_start_minute > 0 /\ empty_slots_before >= 0
        THEN [empties |-> empty_slots_before + 1, ptr |-> cls_start_hour + 1]
        ELSE IF empty_slots_before > 0
        THEN [empties |-> empty_slots_before, ptr |-> cls_start_hour]
        ELSE [empties |-> 0, ptr |-> ptr]

\* GapFill without "and empty_slots_before >= 0": a mid-hour start sets the
\* cursor to its hour even when the cursor is past it
GapFill_NoGuard(cls_start_hour, cls_start_minute, ptr) ==
    LET empty_slots_before == cls_start_hour - ptr
    IN  IF cls_start_minute > 0
        THEN [empties |-> Max(0, empty_slots_before), ptr |-> cls_start_hour]
        ELSE IF empty_slots_before > 0
        THEN [empties |-> empty_slots_before, ptr |-> cls_start_hour]
        ELSE [empties |-> 0, ptr |-> ptr]

\* "Fill empty cells before the class starts": the number of <td></td>
\* emitted and the cursor afterwards
GapFill(cls_start_hour, cls_start_minute, ptr) ==
    LET empty_slots_before == cls_start_hour - ptr
    IN  IF cls_start_minute > 0 /\ empty_slots_before >= 0
        THEN [empties |-> empty_slots_before, ptr |-> cls_start_hour]
        ELSE IF empty_slots_before > 0
        THEN [empties |-> empty_slots_before, ptr |-> cls_start_hour]
        ELSE [empties |-> 0, ptr |-> ptr]

\* sorted_classes = sorted(...): the key raises ValueError on a start that
\* is no HH:MM time, and nothing catches it
SortClasses ==
    /\ row_pc = "sort"
    /\ IF SortRaises(day, classes)
       THEN /\ row_pc' = "raised"
            /\ UNCHANGED sorted_classes
       ELSE /\ sorted_classes' = SortedClasses(day, classes)
            /\ row_pc' = "loop"
    /\ UNCHANGED <<day, classes, hour_ptr, row, parseVars, pipeVars>>

\* One pass of "for cls in sorted_classes"
PlaceClass ==
    /\ row_pc = "loop"
    /\ sorted_classes # <<>>
    /\ LET cls == Head(sorted_classes)
       IN  IF TimeToColspanRaises(cls.start, cls.duration)
           THEN /\ row_pc' = "raised"
                /\ UNCHANGED <<sorted_classes, hour_ptr, row>>
           ELSE LET colspan == time_to_colspan(cls.start, cls.duration)
                    gap     == GapFill(get_start_hour(cls.start),
                                       StartMinute(cls.start), hour_ptr)
                IN  /\ row' = row \o EmptyCells(gap.empties)
                                  \o <<ClassCell(cls, colspan)>>
                    /\ hour_ptr' = gap.ptr + colspan
                    /\ sorted_classes' = Tail(sorted_classes)
                    /\ UNCHANGED row_pc
    /\ UNCHANGED <<day, classes, parseVars, pipeVars>>

\* while hour_ptr <= HOURS[-1], then return row
FillRemaining ==
    /\ row_pc = "loop"
    /\ sorted_classes = <<>>
    /\ LET n == Max(0, HOURS[Len(HOURS)] - hour_ptr + 1)
       IN  /\ row' = row \o EmptyCells(n)
           /\ hour_ptr' = hour_ptr + n
    /\ row_pc' = "done"
    /\ UNCHANGED <<day, classes, sorted_classes, parseVars, pipeVars>>

\* Inputs of the generator: what parse_html_to_json emits for cards whose
\* time field is a range from StartChoices of a length from LengthChoices,
\* or is missing, or holds a text that is no time
StartChoices == {<<7, 30>>, <<8, 0>>, <<9, 0>>, <<9, 30>>, <<10, 0>>, <<20, 0>>}

LengthChoices == {30, 60, 61, 120}

RangeFrom(st, len) ==
    LET e == 60 * st[1] + st[2] + len
    IN  RangeText(FormatHHMM(st[1], st[2]), FormatHHMM(e \div 60, e % 60))

GeneratorCards ==
    {Card(TRUE, "MON", TRUE, RangeFrom(st, len)) :
         st \in StartChoices, len \in LengthChoices}
    \cup {Card(TRUE, "TUE", TRUE, RangeFrom(<<9, 0>>, 60)),
          Card(TRUE, "MON", FALSE, <<>>),
          Card(TRUE, "MON", TRUE, RangeText(FormatHHMM(9, 0), <<"9", "a", "m">>)),
          Card(TRUE, "MON", TRUE, RangeText(<<"9", "a", "m">>, FormatHHMM(10, 0)))}

EmittedRecords == {ExtractCard(c) : c \in GeneratorCards}

InitRow ==
    /\ day \in {DAYS[k] : k \in 1..Len(DAYS)}
    /\ classes \in SeqsUpTo(EmittedRecords, MaxClasses)
    /\ sorted_classes = <<>>
    /\ hour_ptr = HOURS[1]
    /\ row = <<>>
    /\ row_pc = "sort"
    /\ ParseIdle /\ PipeIdle

NextRow == SortClasses \/ PlaceClass \/ FillRemaining

Spec == InitRow /\ [][NextRow]_vars

----------------------------------------------------------------------------
(* main.py: run_pipeline, with the module-level script of parser.py and the *)
(* __main__ block of gen_schedule.py as its two subprocesses                 *)

\* parse_html_to_json raises on some card of the document
ParseRaises(doc) == \E k \in 1..Len(doc) : CardRaises(doc[k])

\* parse_html_to_json(html_content), when it returns
ParseAll(doc) == [k \in 1..Len(doc) |-> ExtractCard(doc[k])]

\* generate_row(d, cs) raises
GenerateRowRaises(d, cs) ==
    \/ SortRaises(d, cs)
    \/ \E k \in 1..Len(ClassesOfDay(d, cs)) :
           TimeToColspanRaises(ClassesOfDay(d, cs)[k].start,
                               ClassesOfDay(d, cs)[k].duration)

\* generate_schedule_html(data) raises: gen_schedule.py exits non-zero
GenRaises(cs) == \E k \in 1..Len(DAYS) : GenerateRowRaises(DAYS[k], cs)

Absent == [state |-> "absent", data |-> <<>>]

Truncated == [state |-> "empty", data |-> <<>>]

Written(cs) == [state |-> "data", data |-> cs]

\* What the input path may hold: nothing readable, an empty file, or a
\* document of cards
Documents ==
    { <<>>,
      <<Card(TRUE, "MON", TRUE, RangeFrom(<<9, 0>>, 60))>>,
      <<Card(TRUE, "MON", FALSE, <<>>)>>,
      <<Card(TRUE, "MON", TRUE,
             RangeText(FormatHHMM(9, 30),
                       RangeText(FormatHHMM(10, 0), FormatHHMM(11, 0))))>> }

Inputs ==
    {[kind |-> "unreadable", doc |-> <<>>], [kind |-> "empty", doc |-> <<>>]}
    \cup {[kind |-> "html", doc |-> d] : d \in Documents}

NoInput == [kind |-> "none", doc |-> <<>>]

StartRun ==
    /\ run_pc = "idle"
    /\ runs < MaxRuns
    /\ runs' = runs + 1
    /\ input' \in Inputs
    /\ generated_html' = "none"
    /\ parser_wrote' = FALSE
    /\ gen_started' = FALSE
    /\ out_written' = FALSE
    /\ run_pc' = "parser"
    /\ UNCHANGED <<temp_file, rowVars, parseVars>>

\* Step 1: subprocess.run([sys.executable, "parser.py", ...], check=True).
\* parser.py exits 0 unless parse_html_to_json raises: a read failure, empty
\* content and a write failure are printed and the script ends normally.
RunParser ==
    /\ run_pc = "parser"
    /\ \E launched \in BOOLEAN, write \in {"ok", "open_failed", "write_failed"} :
          IF ~launched
          THEN /\ run_pc' = "idle"
               /\ UNCHANGED <<temp_file, parser_wrote>>
          ELSE IF input.kind # "html"
          THEN /\ run_pc' = "check"
               /\ UNCHANGED <<temp_file, parser_wrote>>
          ELSE IF ParseRaises(input.doc)
          THEN /\ run_pc' = "idle"
               /\ UNCHANGED <<temp_file, parser_wrote>>
          ELSE /\ run_pc' = "check"
               /\ temp_file' = CASE write = "ok" -> Written(ParseAll(input.doc))
                                 [] write = "open_failed" -> temp_file
                                 [] write = "write_failed" -> Truncated
               /\ parser_wrote' = (write = "ok")
    /\ UNCHANGED <<runs, input, generated_html, gen_started, out_written,
                   rowVars, parseVars>>

\* if not os.path.exists(temp_json_path) or os.path.getsize(...) == 0: return
CheckTemp ==
    /\ run_pc = "check"
    /\ run_pc' = IF temp_file.state = "data" THEN "gen" ELSE "idle"
    /\ UNCHANGED <<runs, input, temp_file, generated_html, parser_wrote,
                   gen_started, out_written, rowVars, parseVars>>

\* Step 2: subprocess.run([sys.executable, "gen_schedule.py", ...],
\* check=True); every except branch returns, and none removes the file
RunGen ==
    /\ run_pc = "gen"
    /\ gen_started' = TRUE
    /\ \E launched \in BOOLEAN :
          IF launched /\ ~GenRaises(temp_file.data)
          THEN /\ generated_html' = "page"
               /\ run_pc' = "save"
          ELSE /\ run_pc' = "idle"
               /\ UNCHANGED generated_html
    /\ UNCHANGED <<runs, input, temp_file, parser_wrote, out_written,
                   rowVars, parseVars>>

\* Step 3: write the page; finally: os.remove(temp_json_path)
SaveOutput ==
    /\ run_pc = "save"
    /\ \E saved \in BOOLEAN : out_written' = saved
    /\ temp_file' = Absent
    /\ run_pc' = "idle"
    /\ UNCHANGED <<runs, input, generated_html, parser_wrote, gen_started,
                   rowVars, parseVars>>

InitPipe ==
    /\ run_pc = "idle"
    /\ runs = 0
    /\ input = NoInput
    /\ temp_file = Absent
    /\ generated_html = "none"
    /\ parser_wrote = FALSE
    /\ gen_started = FALSE
    /\ out_written = FALSE
    /\ RowIdle /\ ParseIdle

NextPipe == StartRun \/ RunParser \/ CheckTemp \/ RunGen \/ SaveOutput

SpecPipe == InitPipe /\ [][NextPipe]_vars

----------------------------------------------------------------------------
(* Properties of generate_row, under Spec *)

IsClassCell(c) == c.cls # <<>>

RECURSIVE RowWidth(_)
RowWidth(r) == IF r = <<>> THEN 0 ELSE Head(r).colspan + RowWidth(Tail(r))

\* The hour of the header column under which cell i of the row begins
BeginSlot(r, i) == HOURS[1] + RowWidth(SubSeq(r, 1, i - 1))

ClassCellsOf(r) == {i \in 1..Len(r) : IsClassCell(r[i])}

RecordOf(c) == c.cls[1]

\* C1: a finished row is as wide as the header: the colspans of its cells
\* (1 for an empty cell) add up to the number of HOURS columns.
C1_SlotCoverage == row_pc = "done" => RowWidth(row) = Len(HOURS)

\* C2: the colspan of every class cell is the duration in minutes divided by
\* the 60-minute slot, rounded up, and at least 1.
C2_DurationToSpan ==
    \A i \in ClassCellsOf(row) :
        row[i].colspan =
            Max(1, (DurationMinutes(RecordOf(row[i]).duration) + 59) \div 60)

\* C3 as stated: every class cell begins under a header hour that is not
\* after the record's start time.
C3_RoundingRule ==
    \A i \in ClassCellsOf(row) :
        60 * BeginSlot(row, i) <= Strptime(RecordOf(row[i]).start)

\* C3 as amended: a class cell begins under the hour of its record's start,
\* which is not after the start; or, when the cursor was already past that
\* hour, right at the cursor: after the previous class cell with no empty
\* cell between, or as the first cell of the row.
C3_RoundingRuleAtCursor ==
    \A i \in ClassCellsOf(row) :
        LET b  == BeginSlot(row, i)
            sh == get_start_hour(RecordOf(row[i]).start)
        IN  \/ b = sh /\ 60 * b <= Strptime(RecordOf(row[i]).start)
            \/ b > sh /\ (i = 1 \/ IsClassCell(row[i - 1]))

\* A finished row with a record that starts mid-hour placed under its own
\* hour after empty cells, and a record placed at the cursor past its start.
C3_Witness ==
    /\ row_pc = "done"
    /\ \E i \in ClassCellsOf(row) :
          /\ StartMinute(RecordOf(row[i]).start) > 0
          /\ i > 1 /\ ~IsClassCell(row[i - 1])
          /\ BeginSlot(row, i) = get_start_hour(RecordOf(row[i]).start)
    /\ \E j \in ClassCellsOf(row) :
          BeginSlot(row, j) > get_start_hour(RecordOf(row[j]).start)

UnparseableTime(cls) == TimeToColspanRaises(cls.start, cls.duration)

RECURSIVE Parseable(_)
Parseable(cs) ==
    IF cs = <<>> THEN <<>>
    ELSE IF UnparseableTime(Head(cs)) THEN Parseable(Tail(cs))
         ELSE <<Head(cs)>> \o Parseable(Tail(cs))

\* C4: the row fill never fails, and a finished row holds one class cell for
\* each of the day's records with a parseable time and none for the others.
C4_SkipOnUnparseable ==
    /\ row_pc # "raised"
    /\ row_pc = "done" =>
          Cardinality(ClassCellsOf(row)) = Len(Parseable(ClassesOfDay(day, classes)))

\* C8: of two class cells of a row, the one whose record starts earlier
\* begins at or before the other.
C8_AlignmentMonotonic ==
    \A i, j \in ClassCellsOf(row) :
        Strptime(RecordOf(row[i]).start) < Strptime(RecordOf(row[j]).start)
            => BeginSlot(row, i) <= BeginSlot(row, j)

\* A finished row of two overlapping records that were given latest first.
C8_Witness ==
    /\ row_pc = "done"
    /\ Len(classes) >= 2
    /\ classes[1].day = day /\ classes[2].day = day
    /\ Strptime(classes[2].start) < Strptime(classes[1].start)
    /\ Cardinality(ClassCellsOf(row)) >= 2
    /\ \E i \in ClassCellsOf(row) :
          BeginSlot(row, i) > get_start_hour(RecordOf(row[i]).start)

\* A record is placed whose start hour is before the cursor
BackwardStart ==
    /\ row_pc = "loop" /\ row_pc' = "loop"
    /\ sorted_classes # <<>>
    /\ get_start_hour(Head(sorted_classes).start) < hour_ptr

\* C9: the cursor never moves backward; and placing a record whose start hour
\* is before the cursor emits the class cell alone, with no empty cell.
C9_BackwardStartGuard ==
    [][ /\ hour_ptr' >= hour_ptr
        /\ BackwardStart =>
              /\ Len(row') = Len(row) + 1
              /\ IsClassCell(row'[Len(row')])
              /\ hour_ptr' = hour_ptr + row'[Len(row')].colspan ]_vars

\* A record that starts mid-hour was placed behind a class cell that covers
\* its start hour.
C9_Witness ==
    \E i \in ClassCellsOf(row) :
        /\ i > 1 /\ IsClassCell(row[i - 1])
        /\ StartMinute(RecordOf(row[i]).start) > 0
        /\ get_start_hour(RecordOf(row[i]).start) < BeginSlot(row, i)

----------------------------------------------------------------------------
(* Properties of parse_html_to_json, under SpecParse *)

ClockMinutes(t) == 60 * t[1] + t[2]

\* C5: a card whose time field is "HH:MM - HH:MM" with two valid times gives
\* a record whose start is the first time and whose duration is an HH:MM text
\* of the minutes from start to end, the end taken on the next day when it
\* is before the start.
C5_TimeRangeParsing ==
    \A i \in 1..Len(courses_data) : \A a, b \in ClockChoices :
        (cards[i].has_time
         /\ cards[i].time = RangeText(FormatHHMM(a[1], a[2]), FormatHHMM(b[1], b[2])))
        => /\ courses_data[i].start = FormatHHMM(a[1], a[2])
           /\ Len(courses_data[i].duration) = 5
           /\ CanStrptime(courses_data[i].duration)
           /\ Strptime(courses_data[i].duration)
                  = (ClockMinutes(b) - ClockMinutes(a)) % MinutesPerDay

\* The extraction returned with a record for a range that ends before it
\* starts.
C5_Witness ==
    /\ parse_pc = "done"
    /\ \E i \in 1..Len(courses_data) : \E a, b \in ClockChoices :
          /\ ClockMinutes(b) < ClockMinutes(a)
          /\ cards[i].has_time
          /\ cards[i].time = RangeText(FormatHHMM(a[1], a[2]), FormatHHMM(b[1], b[2]))

\* C6: the extraction never aborts, and returns one record per card.
C6_FieldFailureLocal ==
    /\ parse_pc # "raised"
    /\ parse_pc = "done" => Len(courses_data) = Len(cards)

----------------------------------------------------------------------------
(* Properties of run_pipeline, under SpecPipe *)

\* C7: in a run, gen_schedule.py is started, and the output page written,
\* only if parser.py wrote the intermediate file in that run.
C7_StageGating ==
    /\ gen_started => parser_wrote
    /\ out_written => parser_wrote

\* C10: whenever run_pipeline has returned, temp_data.json does not exist.
C10_NoTempFileLeft == run_pc = "idle" => temp_file.state = "absent"

====
